---- MODULE Spec2Model ----
(***************************************************************************)
(* prompt-dialog: discovery of a running OpenCode server, the two-step     *)
(* prompt submission, and the dialog's callbacks, as a state machine.      *)
(*                                                                         *)
(* Strings are sequences of one-character strings, so that splitting,      *)
(* prefix tests, parsing and replacement are computed, not assumed.        *)
(* Option<T> is a set with at most one element: None is {}, Some(x) is {x}.*)
(* Result<T> is [ok |-> TRUE, val |-> v] or [ok |-> FALSE, err |-> chain]; *)
(* an anyhow error is its chain of messages, outermost context first.      *)
(***************************************************************************)
EXTENDS Integers, Sequences, FiniteSets, TLC

\* ------------------------------------------------------------------ bounds

\* Longest process table one scan sees.
MaxProcs == 3
\* Most submit events of one run of the dialog.
MaxSubmits == 2

\* ----------------------------------------------------------------- options

None == {}
Some(x) == {x}
Unwrap(o) == CHOOSE x \in o : TRUE

Ok(v) == [ok |-> TRUE, val |-> v]
Err(e) == [ok |-> FALSE, err |-> e]

\* ----------------------------------------------------------------- strings

Whitespace == {" ", "\t", "\n"}
DigitChars == {"0", "1", "2", "3", "4", "5", "6", "7", "8", "9"}
DigitVal == ("0" :> 0) @@ ("1" :> 1) @@ ("2" :> 2) @@ ("3" :> 3) @@ ("4" :> 4)
            @@ ("5" :> 5) @@ ("6" :> 6) @@ ("7" :> 7) @@ ("8" :> 8) @@ ("9" :> 9)

\* str::starts_with at offset i (1-based): pat occurs in s at position i.
MatchesAt(s, pat, i) ==
    /\ i >= 1
    /\ i + Len(pat) - 1 <= Len(s)
    /\ \A j \in 1..Len(pat) : s[i + j - 1] = pat[j]

\* str::contains
Contains(s, pat) == \E i \in 1..(Len(s) + 1) : MatchesAt(s, pat, i)

\* str::strip_prefix: the rest of s after pat, or None.
StripPrefix(s, pat) ==
    IF MatchesAt(s, pat, 1) THEN Some(SubSeq(s, Len(pat) + 1, Len(s))) ELSE None

\* [String]::join(" ")
RECURSIVE JoinSpace(_)
JoinSpace(args) ==
    IF args = <<>> THEN <<>>
    ELSE IF Len(args) = 1 THEN args[1]
    ELSE args[1] \o <<" ">> \o JoinSpace(Tail(args))

\* str::split_whitespace: the maximal runs of non-whitespace characters.
RECURSIVE SplitFrom(_, _, _)
SplitFrom(s, i, cur) ==
    IF i > Len(s) THEN (IF cur = <<>> THEN <<>> ELSE <<cur>>)
    ELSE IF s[i] \in Whitespace
         THEN (IF cur = <<>> THEN <<>> ELSE <<cur>>) \o SplitFrom(s, i + 1, <<>>)
         ELSE SplitFrom(s, i + 1, Append(cur, s[i]))

SplitWhitespace(s) == SplitFrom(s, 1, <<>>)

\* Largest value of a u16.
U16Max == 65535

RECURSIVE DigitsValue(_)
DigitsValue(ds) ==
    IF ds = <<>> THEN 0
    ELSE 10 * DigitsValue(SubSeq(ds, 1, Len(ds) - 1)) + DigitVal[ds[Len(ds)]]

\* str::parse::<i16> in place of u16: the value at most i16::MAX.
ParseU16_Signed(s) ==
    LET body == IF s # <<>> /\ s[1] = "+" THEN Tail(s) ELSE s
    IN  IF body = <<>> \/ (\E i \in 1..Len(body) : body[i] \notin DigitChars)
        THEN None
        ELSE IF DigitsValue(body) > 32767 THEN None ELSE Some(DigitsValue(body))

\* str::parse::<u16>: an optional '+', then one or more decimal digits, the
\* value at most u16::MAX; anything else is an error (None here, as the
\* callers keep only Ok).
ParseU16(s) ==
    LET body == IF s # <<>> /\ s[1] = "+" THEN Tail(s) ELSE s
    IN  IF body = <<>> \/ (\E i \in 1..Len(body) : body[i] \notin DigitChars)
        THEN None
        ELSE IF DigitsValue(body) > U16Max THEN None ELSE Some(DigitsValue(body))


\* ------------------------------------------------------------------ errors

\* One message of an error chain; port and dir hold what the message names.
Msg(m) == [msg |-> m, port |-> {}, dir |-> {}]
MsgPort(m, p) == [msg |-> m, port |-> {p}, dir |-> {}]
MsgDir(m, d) == [msg |-> m, port |-> {}, dir |-> {d}]

\* anyhow's Context::context on a Result: an Err gets msg as its outermost
\* message, an Ok is untouched.
WithContext(r, m) == IF r.ok THEN r ELSE Err(<<m>> \o r.err)

\* format!("{}", e) of an anyhow error: the outermost message only.
Display(e) == e[1]

\* --------------------------------------------------------------- discovery

sOpencode == <<"o", "p", "e", "n", "c", "o", "d", "e">>
sPort == <<"-", "-", "p", "o", "r", "t">>
sPortEq == <<"-", "-", "p", "o", "r", "t", "=">>

\* The process table the scan can see: each process's pid and argument list.
ProcPool ==
    { [pid |-> 11, cmd |-> <<sOpencode, sPort, <<"8", "0", "8", "0">>>>],
      [pid |-> 22, cmd |-> <<sOpencode, sPortEq \o <<"9", "0", "9", "0">>>>],
      [pid |-> 33, cmd |-> <<sOpencode, sPort, <<"a", "b", "c">>>>],
      [pid |-> 55, cmd |-> <<<<"n", "o", "d", "e">>, sOpencode, sPort,
                             <<"8", "0", "8", "0">>, <<"-", "-", "o">>>>],
      [pid |-> 44, cmd |-> <<<<"v", "i", "m">>, <<"n", "o", "t", "e", "s">>>>] }

\* The snapshots System::new_all() can give: the processes in any order.
Snapshots ==
    UNION { { t \in [1..n -> ProcPool] : \A i, j \in 1..n : t[i] = t[j] => i = j }
            : n \in 0..MaxProcs }

\* find_opencode_processes: the processes whose joined command line holds
\* both "opencode" and "--port", in enumeration order.
find_opencode_processes(table) ==
    LET joined == [i \in 1..Len(table) |->
                     [pid |-> table[i].pid, cmdline |-> JoinSpace(table[i].cmd)]]
        Keep(p) == Contains(p.cmdline, sOpencode) /\ Contains(p.cmdline, sPort)
    IN  SelectSeq(joined, Keep)

\* extract_port_from_cmdline: the loop over the whitespace-split parts, from
\* part i on. A part that is "--port" or "--port=..." returns only when its
\* value parses; otherwise the loop goes on to the next part.
RECURSIVE ExtractFrom(_, _)
ExtractFrom(parts, i) ==
    IF i > Len(parts) THEN None
    ELSE IF parts[i] = sPort
         THEN IF i + 1 <= Len(parts) /\ ParseU16(parts[i + 1]) # None
              THEN ParseU16(parts[i + 1])
              ELSE ExtractFrom(parts, i + 1)
         ELSE IF StripPrefix(parts[i], sPortEq) # None
                 /\ ParseU16(Unwrap(StripPrefix(parts[i], sPortEq))) # None
              THEN ParseU16(Unwrap(StripPrefix(parts[i], sPortEq)))
              ELSE ExtractFrom(parts, i + 1)

extract_port_from_cmdline(cmdline) == ExtractFrom(SplitWhitespace(cmdline), 1)

\* What GET /path can come to: the request fails in transport, the body is
\* not the expected JSON, or the body parses to a PathResponse.
TransportError == [kind |-> "transport_error", directory |-> {}, worktree |-> {}]
BadJson == [kind |-> "bad_json", directory |-> {}, worktree |-> {}]
PathResponse(d, w) == [kind |-> "json", directory |-> d, worktree |-> w]

\* Directories a server may report; paths are sequences of components.
ServerDirs == { <<"a">>, <<"c">>, <<"l">>, <<"x">> }

Responses ==
    {TransportError, BadJson, PathResponse(None, None)}
    \cup { PathResponse(Some(d), None) : d \in ServerDirs }
    \cup { PathResponse(None, Some(<<"a">>)), PathResponse(Some(<<"c">>), Some(<<"a">>)) }

\* Client::get_path on `port`, the server answering `resp`.
get_path(port, resp) ==
    IF resp.kind = "transport_error"
    THEN Err(<<Msg("Failed to connect to OpenCode server"), MsgPort("reqwest: send", port)>>)
    ELSE IF resp.kind = "bad_json"
    THEN Err(<<Msg("Failed to parse path response"), MsgPort("reqwest: decode", port)>>)
    ELSE Ok([directory |-> resp.directory, worktree |-> resp.worktree])

\* Option::or with its operands the wrong way round: the second when present.
OptionOr_SecondFirst(a, b) == IF b # None THEN b ELSE a

\* Option::or
OptionOr(a, b) == IF a # None THEN a ELSE b

\* validate_server
validate_server(port, resp) ==
    LET path_response == WithContext(get_path(port, resp),
                                     Msg("Failed to connect to OpenCode server"))
    IN  IF ~path_response.ok THEN path_response
        ELSE LET cwd == OptionOr(path_response.val.directory, path_response.val.worktree)
             IN  IF cwd = None
                 THEN Err(<<Msg("Server did not return a working directory")>>)
                 ELSE Ok([pid |-> 0, port |-> port, cwd |-> Unwrap(cwd)])

\* The file system canonicalize() sees: the directories that exist and one
\* symbolic link.
FsDirs == { <<>>, <<"a">>, <<"a", "b">>, <<"c">> }
FsLinkFrom == <<"l">>
FsLinkTo == <<"a", "b">>

\* Path::starts_with: base's components are the first components of p.
StartsWith(p, base) ==
    /\ Len(base) <= Len(p)
    /\ \A i \in 1..Len(base) : p[i] = base[i]

\* Path::canonicalize: the path with the link resolved, an error (None) when
\* it does not exist.
Canonicalize(p) ==
    LET r == IF StartsWith(p, FsLinkFrom)
             THEN FsLinkTo \o SubSeq(p, Len(FsLinkFrom) + 1, Len(p))
             ELSE p
    IN  IF r \in FsDirs THEN Some(r) ELSE None

\* p.canonicalize().unwrap_or(p)
CanonicalOrGiven(p) == IF Canonicalize(p) # None THEN Unwrap(Canonicalize(p)) ELSE p

\* The directory test in one direction only: the caller inside the server's
\* directory.
DirMatch_OneWay(our_cwd, server_cwd) == StartsWith(our_cwd, server_cwd)

\* The directory test of discover_server, on the two canonicalized paths.
DirMatch(our_cwd, server_cwd) ==
    StartsWith(our_cwd, server_cwd) \/ StartsWith(server_cwd, our_cwd)

\* The explicit-port branch without its context: the validator's error as it is.
ExplicitArm_NoContext(p, v) == v

\* The explicit-port branch: the validator's result under the context that
\* names the port.
ExplicitArm(p, v) == WithContext(v, MsgPort("No OpenCode server responding on port", p))

\* The emptiness test left out: the loop runs over no candidate.
NoCandidates_Skipped(procs) == FALSE

\* processes.is_empty()
NoCandidates(procs) == procs = <<>>

NoProcessesError == <<Msg("No OpenCode processes found. Start OpenCode with: opencode --port 8080")>>

\* The Ok arm without the directory test: the first server that validates.
OkArm_NoDirTest(server, pid, our) == Some([server EXCEPT !.pid = pid])

\* The Ok arm of the loop: the server with the candidate's pid when the
\* directories match (the function returns it), None when the loop goes on.
OkArm(server, pid, our) ==
    LET s == [server EXCEPT !.pid = pid]
    IN  IF DirMatch(CanonicalOrGiven(our), CanonicalOrGiven(s.cwd)) THEN Some(s) ELSE None

\* The Err arm keeping the first error instead of the last.
ErrArm_KeepFirst(last, e) == IF last = None THEN Some(e) ELSE last

\* The Err arm of the loop: last_error after it.
ErrArm(last, e) == Some(e)

\* After the loop: last_error, or the generic error.
Exhausted(last, our) ==
    Err(IF last # None THEN Unwrap(last)
        ELSE <<MsgDir("No OpenCode server found for directory", our)>>)


\* ------------------------------------------------------------- text engine

\* str::trim: without the leading and the trailing whitespace.
RECURSIVE TrimStart(_)
TrimStart(s) == IF s # <<>> /\ s[1] \in Whitespace THEN TrimStart(Tail(s)) ELSE s

RECURSIVE TrimEnd(_)
TrimEnd(s) ==
    IF s # <<>> /\ s[Len(s)] \in Whitespace THEN TrimEnd(SubSeq(s, 1, Len(s) - 1)) ELSE s

Trim(s) == TrimEnd(TrimStart(s))

\* str::rsplit_once('='): the text before and after the last '=', or None.
SplitOnceEq_Last(s) ==
    IF \E i \in 1..Len(s) : s[i] = "="
    THEN LET i == CHOOSE k \in 1..Len(s) : s[k] = "=" /\ \A j \in (k + 1)..Len(s) : s[j] # "="
         IN  Some(<<SubSeq(s, 1, i - 1), SubSeq(s, i + 1, Len(s))>>)
    ELSE None

\* str::split_once('='): the text before and after the first '=', or None.
SplitOnceEq(s) ==
    IF \E i \in 1..Len(s) : s[i] = "="
    THEN LET i == CHOOSE k \in 1..Len(s) : s[k] = "=" /\ \A j \in 1..(k - 1) : s[j] # "="
         IN  Some(<<SubSeq(s, 1, i - 1), SubSeq(s, i + 1, Len(s))>>)
    ELSE None

\* HashMap::insert: the map with key bound to value, a former binding replaced.
MapInsert(map, key, value) == (key :> value) @@ map

EmptyMap == <<>>

\* parse_params: the loop over raw, from entry i on.
RECURSIVE ParseParamsFrom(_, _, _)
ParseParamsFrom(raw, i, map) ==
    IF i > Len(raw) THEN map
    ELSE LET kv == SplitOnceEq(raw[i])
         IN  IF kv # None /\ Trim(Unwrap(kv)[1]) # <<>>
             THEN ParseParamsFrom(raw, i + 1,
                                  MapInsert(map, Trim(Unwrap(kv)[1]), Trim(Unwrap(kv)[2])))
             ELSE ParseParamsFrom(raw, i + 1, map)

parse_params(raw) == ParseParamsFrom(raw, 1, EmptyMap)

\* str::replace: every non-overlapping occurrence of pat (not empty), from
\* the left, replaced by val.
RECURSIVE ReplaceFrom(_, _, _, _)
ReplaceFrom(s, pat, val, i) ==
    IF i > Len(s) THEN <<>>
    ELSE IF MatchesAt(s, pat, i) THEN val \o ReplaceFrom(s, pat, val, i + Len(pat))
    ELSE <<s[i]>> \o ReplaceFrom(s, pat, val, i + 1)

Replace(s, pat, val) == ReplaceFrom(s, pat, val, 1)

sAtClipboard == <<"@", "c", "l", "i", "p", "b", "o", "a", "r", "d">>

\* read_clipboard: the clipboard's text, None when there is no clipboard or
\* no text (cb = None) or the text is empty.
read_clipboard(cb) == IF cb # None /\ Unwrap(cb) # <<>> THEN cb ELSE None

\* Option<String>::unwrap_or_default
UnwrapOrDefault(o) == IF o # None THEN Unwrap(o) ELSE <<>>

\* expand_builtins, the clipboard being cb when it is read.
expand_builtins(text, cb) ==
    IF Contains(text, sAtClipboard)
    THEN Replace(text, sAtClipboard, UnwrapOrDefault(read_clipboard(cb)))
    ELSE text

\* The keys sorted by length the other way round: shortest first.
KeyOrders_ShortestFirst(params) ==
    LET keys == DOMAIN params
        n == Cardinality(keys)
    IN  { o \in [1..n -> keys] :
            /\ \A i, j \in 1..n : o[i] = o[j] => i = j
            /\ \A i, j \in 1..n : i < j => Len(o[i]) <= Len(o[j]) }

\* The orders sort_by_key(Reverse(len)) can leave the keys in: the sort is
\* stable and HashMap::keys yields them in any order, so every order that is
\* longest first.
KeyOrders(params) ==
    LET keys == DOMAIN params
        n == Cardinality(keys)
    IN  { o \in [1..n -> keys] :
            /\ \A i, j \in 1..n : o[i] = o[j] => i = j
            /\ \A i, j \in 1..n : i < j => Len(o[i]) >= Len(o[j]) }

\* The loop of expand_placeholders over the sorted keys, from key i on.
RECURSIVE ExpandKeysFrom(_, _, _, _)
ExpandKeysFrom(result, params, order, i) ==
    IF i > Len(order) THEN result
    ELSE ExpandKeysFrom(Replace(result, <<"@">> \o order[i], params[order[i]]),
                        params, order, i + 1)

\* expand_placeholders, the clipboard being cb and the keys sorted to order.
expand_placeholders(text, params, cb, order) ==
    ExpandKeysFrom(expand_builtins(text, cb), params, order, 1)

\* ------------------------------------------------------------------ client

\* What a POST /tui/publish can come to: send() fails, or a response arrives
\* (its status is not looked at).
PostOutcomes == {"transport_error", "status_2xx", "status_5xx"}

\* Client::tui_append_prompt
tui_append_prompt(port, outcome) ==
    IF outcome = "transport_error"
    THEN Err(<<Msg("Failed to append prompt"), MsgPort("reqwest: send", port)>>)
    ELSE Ok(<<>>)

\* Client::tui_execute_command
tui_execute_command(port, outcome) ==
    IF outcome = "transport_error"
    THEN Err(<<Msg("Failed to execute command"), MsgPort("reqwest: send", port)>>)
    ELSE Ok(<<>>)

\* send_prompt going on to the submit step whatever the append step came to.
AfterAppend_Ignored(r) == None

\* send_prompt after the append step came to r: Some(result) when it returns
\* there (the `?`), None when it goes on to the submit step.
AfterAppend(r) ==
    LET a == WithContext(r, Msg("Failed to append prompt text"))
    IN  IF a.ok THEN None ELSE Some(a)

\* send_prompt dropping the submit step's error.
AfterSubmit_Swallowed(r) == Ok(<<>>)

\* send_prompt after the submit step came to r: what it returns.
AfterSubmit(r) ==
    LET b == WithContext(r, Msg("Failed to submit prompt"))
    IN  IF b.ok THEN Ok(<<>>) ELSE b

\* The closure closing the dialog whatever send_prompt returned.
CompletionClosure_AlwaysClose(result) == [kind |-> "close", text |-> <<>>]

\* The closure the spawned task posts to the event loop for send_prompt's
\* result: close the dialog, or show the error.
CompletionClosure(result) ==
    IF result.ok
    THEN [kind |-> "close", text |-> <<>>]
    ELSE [kind |-> "seterr", text |-> <<Msg("Send failed: "), Display(result.err)>>]

\* A client made without a server too, for a default port.
MakeClient_DefaultPort(result) == IF result.ok THEN Some(result.val.port) ELSE Some(4096)

\* main's client: a Client for the discovered port, None without a server.
MakeClient(result) == IF result.ok THEN Some(result.val.port) ELSE None


\* ------------------------------------------------------------------- state

VARIABLES
    pc,               \* where main is: start, discover, scan_loop, discovered, running, exited
    cli_port,         \* Cli::port
    cli_params,       \* Cli::params
    cwd,              \* main's cwd, the current directory
    params,           \* main's params, the parsed map
    processes,        \* discover_server's processes
    idx,              \* the loop's position in processes
    last_error,       \* discover_server's last_error
    validated,        \* history: the validate_server calls of this discover_server call
    scans,            \* history: the find_opencode_processes calls
    discovery_result, \* main's discovery_result, None before discovery ends
    connected,        \* the dialog's connected property
    error_text,       \* the dialog's error-text property
    visible,          \* whether the window is shown
    loop,             \* the event loop: idle, running, quit
    client,           \* main's client
    tasks,            \* the tasks spawned on the runtime, in spawn order
    queue,            \* the closures posted with invoke_from_event_loop
    posts,            \* history: the POST /tui/publish requests issued
    submitted,        \* history: the texts of the submit events
    dismissed,        \* history: a dismiss event happened
    h_in,             \* harness: the inputs a pure function is applied to
    h_out             \* harness: its result, None before it is applied

mainVars == <<pc, cli_port, cli_params, cwd, params>>
discVars == <<processes, idx, last_error, validated, scans, discovery_result>>
dialogVars == <<connected, error_text, visible, loop, client>>
asyncVars == <<tasks, queue, posts>>
eventVars == <<submitted, dismissed>>
harnessVars == <<h_in, h_out>>
vars == <<mainVars, discVars, dialogVars, asyncVars, eventVars, harnessVars>>

\* The command lines the program is started with, and its current directory.
CliPorts == {None, Some(8080)}
CliParamChoices == { <<>>, << <<"k", "=", "v">> >> }
Cwds == { <<"a", "b">>, <<"c">> }

\* What the user submits, and what the clipboard holds when it is read.
SubmitTexts == { <<>>, <<"@", "k">> }
Clipboards == { None, Some(<<>>), Some(<<"c">>) }

HarnessIdle == h_in = <<>> /\ h_out = None

ProgramStart ==
    /\ pc = "start"
    /\ params = EmptyMap
    /\ processes = <<>>
    /\ idx = 0
    /\ last_error = None
    /\ validated = <<>>
    /\ scans = 0
    /\ discovery_result = None
    /\ connected = FALSE
    /\ error_text = <<>>
    /\ visible = FALSE
    /\ loop = "idle"
    /\ client = None
    /\ tasks = <<>>
    /\ queue = <<>>
    /\ posts = <<>>
    /\ submitted = <<>>
    /\ dismissed = FALSE

Init ==
    /\ cli_port \in CliPorts
    /\ cli_params \in CliParamChoices
    /\ cwd \in Cwds
    /\ ProgramStart
    /\ HarnessIdle

\* -------------------------------------------------------------------- main

\* main up to the call of discover_and_connect: the params are parsed.
MainStart ==
    /\ pc = "start"
    /\ params' = parse_params(cli_params)
    /\ pc' = "discover"
    /\ UNCHANGED <<cli_port, cli_params, cwd>>
    /\ UNCHANGED <<discVars, dialogVars, asyncVars, eventVars, harnessVars>>

\* discover_server with a port given: one validation, no scan.
DiscoverExplicit ==
    /\ pc = "discover"
    /\ cli_port # None
    /\ \E resp \in Responses :
         LET p == Unwrap(cli_port)
             v == validate_server(p, resp)
         IN  /\ validated' = Append(validated, [idx |-> 0, port |-> p, res |-> v])
             /\ discovery_result' = Some(ExplicitArm(p, v))
    /\ pc' = "discovered"
    /\ UNCHANGED <<cli_port, cli_params, cwd, params>>
    /\ UNCHANGED <<processes, idx, last_error, scans>>
    /\ UNCHANGED <<dialogVars, asyncVars, eventVars, harnessVars>>

\* discover_server without a port, up to the loop: the scan, and the error
\* when it finds nothing.
DiscoverScan ==
    /\ pc = "discover"
    /\ cli_port = None
    /\ \E table \in Snapshots : processes' = find_opencode_processes(table)
    /\ scans' = scans + 1
    /\ IF NoCandidates(processes')
       THEN /\ discovery_result' = Some(Err(NoProcessesError))
            /\ pc' = "discovered"
            /\ UNCHANGED idx
       ELSE /\ pc' = "scan_loop"
            /\ idx' = 1
            /\ UNCHANGED discovery_result
    /\ UNCHANGED <<cli_port, cli_params, cwd, params>>
    /\ UNCHANGED <<last_error, validated>>
    /\ UNCHANGED <<dialogVars, asyncVars, eventVars, harnessVars>>

\* One turn of the loop over processes: the candidate at idx.
ScanCandidate ==
    /\ pc = "scan_loop"
    /\ idx <= Len(processes)
    /\ LET cand == processes[idx]
           port == extract_port_from_cmdline(cand.cmdline)
       IN  IF port = None
           THEN /\ idx' = idx + 1
                /\ UNCHANGED <<pc, last_error, validated, discovery_result>>
           ELSE \E resp \in Responses :
                  LET v == validate_server(Unwrap(port), resp)
                      won == IF v.ok THEN OkArm(v.val, cand.pid, cwd) ELSE None
                  IN  /\ validated' = Append(validated,
                                             [idx |-> idx, port |-> Unwrap(port), res |-> v])
                      /\ IF won # None
                         THEN /\ discovery_result' = Some(Ok(Unwrap(won)))
                              /\ pc' = "discovered"
                              /\ UNCHANGED <<idx, last_error>>
                         ELSE /\ idx' = idx + 1
                              /\ last_error' = IF v.ok THEN last_error
                                               ELSE ErrArm(last_error, v.err)
                              /\ UNCHANGED <<pc, discovery_result>>
    /\ UNCHANGED <<cli_port, cli_params, cwd, params>>
    /\ UNCHANGED <<processes, scans>>
    /\ UNCHANGED <<dialogVars, asyncVars, eventVars, harnessVars>>

\* The loop is over with no server returned.
ScanExhausted ==
    /\ pc = "scan_loop"
    /\ idx > Len(processes)
    /\ discovery_result' = Some(Exhausted(last_error, cwd))
    /\ pc' = "discovered"
    /\ UNCHANGED <<cli_port, cli_params, cwd, params>>
    /\ UNCHANGED <<processes, idx, last_error, validated, scans>>
    /\ UNCHANGED <<dialogVars, asyncVars, eventVars, harnessVars>>

\* The connection state main gives the dialog for a discovery result.
ConnectionState(result) ==
    IF result.ok
    THEN [connected |-> TRUE, error_text |-> <<>>]
    ELSE [connected |-> FALSE, error_text |-> <<Display(result.err)>>]

\* main from the creation of the dialog to dialog.run(): the connection
\* state, the client, the callbacks; the event loop starts. The locals of
\* the discover_server call are gone.
SetUpDialog ==
    /\ pc = "discovered"
    /\ LET result == Unwrap(discovery_result)
       IN  /\ connected' = ConnectionState(result).connected
           /\ error_text' = ConnectionState(result).error_text
           /\ client' = MakeClient(result)
    /\ visible' = TRUE
    /\ loop' = "running"
    /\ pc' = "running"
    /\ processes' = <<>>
    /\ idx' = 0
    /\ last_error' = None
    /\ validated' = <<>>
    /\ UNCHANGED <<cli_port, cli_params, cwd, params>>
    /\ UNCHANGED <<scans, discovery_result>>
    /\ UNCHANGED <<asyncVars, eventVars, harnessVars>>


\* ------------------------------------------------------------------ dialog

\* The spawned task ends with `result`: it posts the closure for it.
TaskEnds(t, result) ==
    /\ tasks' = [tasks EXCEPT ![t].pc = "finished", ![t].result = Some(result)]
    /\ queue' = Append(queue, [task |-> t, kind |-> CompletionClosure(result).kind,
                               text |-> CompletionClosure(result).text])

\* The submit callback, the user submitting `text`: nothing for an empty
\* text; otherwise the text is expanded and, with a client, a task spawned.
OnSubmit(text) ==
    /\ pc = "running"
    /\ loop = "running"
    /\ Len(submitted) < MaxSubmits
    /\ submitted' = Append(submitted, text)
    /\ IF text = <<>> \/ client = None
       THEN UNCHANGED tasks
       ELSE \E cb \in Clipboards, order \in KeyOrders(params) :
              tasks' = Append(tasks, [text |-> expand_placeholders(text, params, cb, order),
                                      port |-> Unwrap(client),
                                      pc |-> "append",
                                      result |-> None])
    /\ UNCHANGED <<mainVars, discVars, dialogVars, queue, posts, dismissed, harnessVars>>

\* The request sent with an empty body in place of its payload.
Issued_NoPayload(t, type, payload, res) ==
    << [task |-> t, type |-> type, payload |-> <<>>, res |-> res] >>

\* The request sent a second time.
Issued_Twice(t, type, payload, res) ==
    << [task |-> t, type |-> type, payload |-> payload, res |-> res],
       [task |-> t, type |-> type, payload |-> payload, res |-> res] >>

\* The requests one call of tui_append_prompt or tui_execute_command issues:
\* one POST, which came to `res`.
Issued(t, type, payload, res) ==
    << [task |-> t, type |-> type, payload |-> payload, res |-> res] >>

\* Task t's first await: the append POST is issued and comes to an outcome.
TaskAppend(t) ==
    /\ pc = "running"
    /\ tasks[t].pc = "append"
    /\ \E outcome \in PostOutcomes :
         LET res == tui_append_prompt(tasks[t].port, outcome)
             returned == AfterAppend(res)
         IN  /\ posts' = posts \o Issued(t, "tui.prompt.append", tasks[t].text, res)
             /\ IF returned = None
                THEN /\ tasks' = [tasks EXCEPT ![t].pc = "submit"]
                     /\ UNCHANGED queue
                ELSE TaskEnds(t, Unwrap(returned))
    /\ UNCHANGED <<mainVars, discVars, dialogVars, eventVars, harnessVars>>

\* Task t's second await: the submit POST is issued and comes to an outcome;
\* send_prompt returns.
TaskSubmit(t) ==
    /\ pc = "running"
    /\ tasks[t].pc = "submit"
    /\ \E outcome \in PostOutcomes :
         LET res == tui_execute_command(tasks[t].port, outcome)
         IN  /\ posts' = posts \o Issued(t, "tui.command.execute",
                                         <<"prompt.submit">>, res)
             /\ TaskEnds(t, AfterSubmit(res))
    /\ UNCHANGED <<mainVars, discVars, dialogVars, eventVars, harnessVars>>

\* The event loop runs the next posted closure.
RunClosure ==
    /\ pc = "running"
    /\ loop = "running"
    /\ queue # <<>>
    /\ queue' = Tail(queue)
    /\ IF Head(queue).kind = "close"
       THEN /\ visible' = FALSE
            /\ loop' = "quit"
            /\ UNCHANGED error_text
       ELSE /\ error_text' = Head(queue).text
            /\ UNCHANGED <<visible, loop>>
    /\ UNCHANGED <<connected, client, tasks, posts>>
    /\ UNCHANGED <<mainVars, discVars, eventVars, harnessVars>>

\* The dismiss callback.
OnDismiss ==
    /\ pc = "running"
    /\ loop = "running"
    /\ visible' = FALSE
    /\ loop' = "quit"
    /\ dismissed' = TRUE
    /\ UNCHANGED <<connected, error_text, client, submitted>>
    /\ UNCHANGED <<mainVars, discVars, asyncVars, harnessVars>>

\* dialog.run() returns after the loop has quit and main returns: the
\* runtime is dropped and its tasks with it.
Exit ==
    /\ pc = "running"
    /\ loop = "quit"
    /\ pc' = "exited"
    /\ UNCHANGED <<cli_port, cli_params, cwd, params>>
    /\ UNCHANGED <<discVars, dialogVars, asyncVars, eventVars, harnessVars>>

Next ==
    \/ MainStart
    \/ DiscoverExplicit
    \/ DiscoverScan
    \/ ScanCandidate
    \/ ScanExhausted
    \/ SetUpDialog
    \/ \E text \in SubmitTexts : OnSubmit(text)
    \/ \E t \in 1..Len(tasks) : TaskAppend(t)
    \/ \E t \in 1..Len(tasks) : TaskSubmit(t)
    \/ RunClosure
    \/ OnDismiss
    \/ Exit

Spec == Init /\ [][Next]_vars


\* ------------------------------------------- harness: the directory match

\* The path components and the depth of the paths the match is tried on.
PathNames == {"a", "b", "c"}
MaxDepth == 2

Paths == UNION { [1..n -> PathNames] : n \in 0..MaxDepth }

\* Every variable of the program, at rest while a harness runs.
ProgramIdle ==
    /\ cli_port = None
    /\ cli_params = <<>>
    /\ cwd = <<>>
    /\ ProgramStart

InitMatch ==
    /\ h_in \in [our_cwd : Paths, server_cwd : Paths]
    /\ h_out = None
    /\ ProgramIdle

\* The test of discover_server on the two paths, and on the two swapped.
ApplyDirMatch ==
    /\ h_out = None
    /\ h_out' = Some([matched |-> DirMatch(h_in.our_cwd, h_in.server_cwd),
                      swapped |-> DirMatch(h_in.server_cwd, h_in.our_cwd)])
    /\ UNCHANGED <<h_in, mainVars, discVars, dialogVars, asyncVars, eventVars>>

NextMatch == ApplyDirMatch

SpecMatch == InitMatch /\ [][NextMatch]_vars

\* ------------------------------------------------------------------ claims

\* a is a proper ancestor of b.
Ancestor(a, b) == Len(a) < Len(b) /\ SubSeq(b, 1, Len(a)) = a

\* a and b are the same directory or one lies inside the other.
Nested(a, b) == a = b \/ Ancestor(a, b) \/ Ancestor(b, a)

\* a and b are different children of one directory.
Siblings(a, b) ==
    /\ a # b
    /\ Len(a) = Len(b)
    /\ Len(a) >= 1
    /\ SubSeq(a, 1, Len(a) - 1) = SubSeq(b, 1, Len(b) - 1)

\* The scan of discover_server has returned.
ScanReturned == pc = "discovered" /\ cli_port = None /\ scans = 1

\* The validation logged in e succeeded and its directory matches cwd.
Wins(e) ==
    /\ e.res.ok
    /\ Nested(CanonicalOrGiven(cwd), CanonicalOrGiven(e.res.val.cwd))

Extractable(i) == extract_port_from_cmdline(processes[i].cmdline) # None

\* The validations are those of the extractable candidates up to k, each
\* once, in scan order, each on the candidate's own port.
ValidatedUpTo(k) ==
    /\ \A i, j \in 1..Len(validated) : i < j => validated[i].idx < validated[j].idx
    /\ { validated[j].idx : j \in 1..Len(validated) }
         = { i \in 1..Len(processes) : i <= k /\ Extractable(i) }
    /\ \A j \in 1..Len(validated) :
         validated[j].port
           = Unwrap(extract_port_from_cmdline(processes[validated[j].idx].cmdline))

\* C1: without an explicit port, a server discover returns is that of the
\* first candidate in scan order whose port is extracted, whose validation
\* succeeds and whose directory matches the current one: every earlier
\* extractable candidate was validated and failed or did not match, the
\* handle has the winner's pid and port, and no later candidate is validated.
C1_FirstMatchWins ==
    (ScanReturned /\ Unwrap(discovery_result).ok) =>
        LET n == Len(validated)
            server == Unwrap(discovery_result).val
        IN  /\ n >= 1
            /\ Wins(validated[n])
            /\ \A j \in 1..(n - 1) : ~Wins(validated[j])
            /\ ValidatedUpTo(validated[n].idx)
            /\ server.pid = processes[validated[n].idx].pid
            /\ server.port = validated[n].port
            /\ server.cwd = validated[n].res.val.cwd

\* C1's case: three extractable candidates, the first fails validation, the
\* second wins, the third is never validated.
C1_Witness ==
    /\ ScanReturned
    /\ Unwrap(discovery_result).ok
    /\ Len(processes) = 3
    /\ \A i \in 1..3 : Extractable(i)
    /\ Len(validated) = 2
    /\ ~validated[1].res.ok

\* C2: the loop over a non-empty candidate list ended with no candidate
\* that validated and matched: discover returns an error, the error of the
\* last failed validation if one failed, the generic error otherwise.
C2_ExhaustedError ==
    (ScanReturned /\ processes # <<>> /\ \A j \in 1..Len(validated) : ~Wins(validated[j])) =>
        LET failed == { j \in 1..Len(validated) : ~validated[j].res.ok }
            last == CHOOSE j \in failed : \A i \in failed : i <= j
            result == Unwrap(discovery_result)
        IN  /\ ValidatedUpTo(Len(processes))
            /\ ~result.ok
            /\ result.err = IF failed # {}
                            THEN validated[last].res.err
                            ELSE <<MsgDir("No OpenCode server found for directory", cwd)>>

\* C2's case: two validations failed with different errors, then the scan
\* ran out.
C2_Witness ==
    /\ ScanReturned
    /\ ~Unwrap(discovery_result).ok
    /\ Len(validated) = 2
    /\ ~validated[1].res.ok
    /\ ~validated[2].res.ok
    /\ validated[1].res.err # validated[2].res.err

\* C3: with an explicit port there is no scan and at most one validation, of
\* that port; discover returns the validated server of that port with pid
\* 0, whatever its directory, or the validator's error under a message that
\* names the port.
C3_ExplicitPort ==
    (cli_port # None) =>
        /\ scans = 0
        /\ processes = <<>>
        /\ Len(validated) <= 1
        /\ pc = "discovered" =>
             LET p == Unwrap(cli_port)
                 v == validated[1]
                 result == Unwrap(discovery_result)
             IN  /\ Len(validated) = 1
                 /\ v.port = p
                 /\ result.ok = v.res.ok
                 /\ v.res.ok =>
                      /\ result.val.port = p
                      /\ result.val.pid = 0
                      /\ result.val.cwd = v.res.val.cwd
                 /\ ~v.res.ok =>
                      /\ result.err = <<MsgPort("No OpenCode server responding on port", p)>>
                                        \o v.res.err
                      /\ Display(result.err).port = {p}

\* C3's case: the explicit port failed validation.
C3_Witness ==
    /\ pc = "discovered"
    /\ cli_port # None
    /\ ~Unwrap(discovery_result).ok

\* C4: the scan found no candidate: discover returns the error that no
\* processes were found, and no validation request was made.
C4_NoCandidates ==
    (ScanReturned /\ processes = <<>>) =>
        /\ validated = <<>>
        /\ Unwrap(discovery_result) = Err(NoProcessesError)

\* C4's case: the scan came back empty.
C4_Witness == ScanReturned /\ processes = <<>>


IsAppend(r) == r.type = "tui.prompt.append"
IsExecute(r) == r.type = "tui.command.execute"

\* The result send_prompt returned in task t.
Returned(t) == Unwrap(tasks[t].result)

\* Task t's append step failed; task t's submit step failed.
AppendFailed(t) ==
    \E i \in 1..Len(posts) : posts[i].task = t /\ IsAppend(posts[i]) /\ ~posts[i].res.ok
SubmitFailed(t) ==
    \E j \in 1..Len(posts) : posts[j].task = t /\ IsExecute(posts[j]) /\ ~posts[j].res.ok

\* C5: every submit POST follows an append POST of the same send_prompt call
\* that succeeded; a call whose append step failed has returned that error
\* and issues no submit POST.
C5_AppendBeforeSubmit ==
    /\ \A j \in 1..Len(posts) :
         IsExecute(posts[j]) =>
           \E i \in 1..(j - 1) :
             posts[i].task = posts[j].task /\ IsAppend(posts[i]) /\ posts[i].res.ok
    /\ \A i \in 1..Len(posts) :
         (IsAppend(posts[i]) /\ ~posts[i].res.ok) =>
           /\ tasks[posts[i].task].pc = "finished"
           /\ Returned(posts[i].task)
                = Err(<<Msg("Failed to append prompt text")>> \o posts[i].res.err)
           /\ \A j \in 1..Len(posts) : ~(posts[j].task = posts[i].task /\ IsExecute(posts[j]))

\* C5's case: an append step failed and its error has reached the dialog.
C5_Witness ==
    /\ \E t \in 1..Len(tasks) : AppendFailed(t)
    /\ error_text = <<Msg("Send failed: "), Msg("Failed to append prompt text")>>

\* C6: a send_prompt call whose append step succeeded and whose submit step
\* failed returns an error that is the submit step's error under the submit
\* message, and whose text differs from that of every call whose append step
\* failed.
C6_SubmitFailureDistinct ==
    \A t \in 1..Len(tasks) :
      SubmitFailed(t) =>
        /\ \E i \in 1..Len(posts) : posts[i].task = t /\ IsAppend(posts[i]) /\ posts[i].res.ok
        /\ tasks[t].result # None
        /\ ~Returned(t).ok
        /\ Display(Returned(t).err) = Msg("Failed to submit prompt")
        /\ \A j \in 1..Len(posts) :
             (posts[j].task = t /\ IsExecute(posts[j])) =>
               Returned(t).err = <<Msg("Failed to submit prompt")>> \o posts[j].res.err
        /\ \A u \in 1..Len(tasks) :
             AppendFailed(u) =>
               /\ Display(Returned(u).err) # Display(Returned(t).err)
               /\ CompletionClosure(Returned(u)) # CompletionClosure(Returned(t))

\* C6's case: one call failed in its submit step, another in its append step.
C6_Witness ==
    \E t, u \in 1..Len(tasks) : SubmitFailed(t) /\ AppendFailed(u)

\* The event loop runs a closure in this step; the result it was posted for.
ClosureRuns == queue # <<>> /\ queue' = Tail(queue)
ClosureResult == Returned(Head(queue).task)

C7_Step ==
    /\ (ClosureRuns /\ ~ClosureResult.ok) =>
         /\ error_text' = <<Msg("Send failed: "), Display(ClosureResult.err)>>
         /\ visible' = visible
         /\ loop' = loop
         /\ pc' = pc
    /\ ((visible /\ ~visible') \/ (loop = "running" /\ loop' = "quit")) =>
         \/ ~dismissed /\ dismissed'
         \/ ClosureRuns /\ ClosureResult.ok
    /\ (pc = "running" /\ pc' = "exited") => loop = "quit"

\* C7: the closure of a failed send_prompt sets the error text and leaves the
\* window, the event loop and the process as they are; the window is hidden
\* and the loop quits only in a dismiss event or in the closure of a
\* send_prompt that returned Ok, and the process ends only after that.
C7_FailureKeepsDialog == [][C7_Step]_vars

\* C7's case: a failed submission has set the error text and the dialog is
\* still open.
C7_Witness ==
    /\ \E t \in 1..Len(tasks) : tasks[t].result # None /\ ~Returned(t).ok
    /\ queue = <<>>
    /\ error_text # <<>>
    /\ error_text[1] = Msg("Send failed: ")
    /\ visible
    /\ loop = "running"

\* C8: every spawned task issues at most one append POST and at most one
\* submit POST, there are no more tasks than submit events with a text, and
\* one discover_server call validates no candidate twice.
C8_NoRetry ==
    /\ \A t \in 1..Len(tasks) :
         /\ Cardinality({ i \in 1..Len(posts) : posts[i].task = t /\ IsAppend(posts[i]) }) <= 1
         /\ Cardinality({ i \in 1..Len(posts) : posts[i].task = t /\ IsExecute(posts[i]) }) <= 1
    /\ \A i \in 1..Len(posts) : posts[i].task \in 1..Len(tasks)
    /\ Len(tasks) <= Cardinality({ k \in 1..Len(submitted) : submitted[k] # <<>> })
    /\ \A i, j \in 1..Len(validated) : i # j => validated[i].idx # validated[j].idx
    /\ cli_port # None => Len(validated) <= 1

\* C8's case: the only request of the only submit event failed, its error is
\* shown, and nothing is left to run.
C8_Witness ==
    /\ Len(submitted) = 1
    /\ Len(posts) = 1
    /\ ~posts[1].res.ok
    /\ tasks[1].pc = "finished"
    /\ queue = <<>>
    /\ loop = "running"

\* C9: after a failed discovery the dialog runs, shown, not connected, with
\* the discovery error as its error text, and no task is spawned and no
\* POST issued, whatever is submitted.
C9_NotConnected ==
    (pc \in {"running", "exited"} /\ ~Unwrap(discovery_result).ok) =>
        /\ connected = FALSE
        /\ error_text = <<Display(Unwrap(discovery_result).err)>>
        /\ loop = "running" => visible
        /\ tasks = <<>>
        /\ posts = <<>>

\* C9's case: a text was submitted to the dialog of a failed discovery.
C9_Witness ==
    /\ pc = "running"
    /\ loop = "running"
    /\ ~Unwrap(discovery_result).ok
    /\ \E k \in 1..Len(submitted) : submitted[k] # <<>>

\* C10: on two canonicalized paths the directory test succeeds exactly when
\* they are equal or one is an ancestor of the other, gives the same with
\* the paths swapped, and fails on two different children of one directory.
C10_MatchSymmetric ==
    h_out # None =>
        LET a == h_in.server_cwd
            b == h_in.our_cwd
            r == Unwrap(h_out)
        IN  /\ r.matched = Nested(a, b)
            /\ r.swapped = r.matched
            /\ Siblings(a, b) => ~r.matched

\* C10's case: the server's directory lies inside the caller's, and matches.
C10_Witness ==
    /\ h_out # None
    /\ Ancestor(h_in.our_cwd, h_in.server_cwd)
    /\ Unwrap(h_out).matched

\* ------------------------------------------------- harness: the validator

\* The ports validate_server is tried on, and every answer GET /path can get
\* over ServerDirs.
ValidatorPorts == {0, 8080, 65535}
OptionalDirs == {None} \cup { Some(d) : d \in ServerDirs }
AllResponses ==
    {TransportError, BadJson} \cup { PathResponse(d, w) : d \in OptionalDirs, w \in OptionalDirs }

InitValidate ==
    /\ h_in \in [port : ValidatorPorts, resp : AllResponses]
    /\ h_out = None
    /\ ProgramIdle

ApplyValidate ==
    /\ h_out = None
    /\ h_out' = Some(validate_server(h_in.port, h_in.resp))
    /\ UNCHANGED <<h_in, mainVars, discVars, dialogVars, asyncVars, eventVars>>

NextValidate == ApplyValidate

SpecValidate == InitValidate /\ [][NextValidate]_vars

\* C11: the validator's working directory is the response's directory when
\* it has one and its worktree only when it has no directory; with neither
\* it fails with the missing-directory (protocol) error, with the request
\* failing it fails with the connection error, and a success is a handle of
\* the validated port with pid 0.
C11_Validator ==
    h_out # None =>
        LET r == Unwrap(h_out)
            resp == h_in.resp
            Handle(d) == Ok([pid |-> 0, port |-> h_in.port, cwd |-> d])
        IN  /\ (resp.kind = "json" /\ resp.directory # None) =>
                 r = Handle(Unwrap(resp.directory))
            /\ (resp.kind = "json" /\ resp.directory = None /\ resp.worktree # None) =>
                 r = Handle(Unwrap(resp.worktree))
            /\ (resp.kind = "json" /\ resp.directory = None /\ resp.worktree = None) =>
                 /\ ~r.ok
                 /\ r.err = <<Msg("Server did not return a working directory")>>
            /\ resp.kind = "transport_error" =>
                 /\ ~r.ok
                 /\ Display(r.err) = Msg("Failed to connect to OpenCode server")
                 /\ r.err # <<Msg("Server did not return a working directory")>>

\* C11's case: a response with a directory and a different worktree.
C11_Witness ==
    /\ h_out # None
    /\ h_in.resp.kind = "json"
    /\ h_in.resp.directory # None
    /\ h_in.resp.worktree # None
    /\ h_in.resp.directory # h_in.resp.worktree
    /\ Unwrap(h_out).ok

\* ---------------------------------------------- harness: the port extractor

\* The parts a command line is put together from, and how many of them.
MaxTokens == 3
TokenPool ==
    { <<"t">>,
      sPort,
      sPortEq \o <<"8", "0">>,
      sPortEq \o <<"x">>,
      <<"8", "0">>,
      <<"x">>,
      <<"7", "0", "0", "0", "0">> }

TokenLists == UNION { [1..n -> TokenPool] : n \in 0..MaxTokens }

InitExtract ==
    /\ h_in \in [tokens : TokenLists]
    /\ h_out = None
    /\ ProgramIdle

ApplyExtract ==
    /\ h_out = None
    /\ h_out' = Some(extract_port_from_cmdline(JoinSpace(h_in.tokens)))
    /\ UNCHANGED <<h_in, mainVars, discVars, dialogVars, asyncVars, eventVars>>

NextExtract == ApplyExtract

SpecExtract == InitExtract /\ [][NextExtract]_vars

\* A part that is "--port" or begins with "--port=".
IsPortToken(t) == t = sPort \/ MatchesAt(t, sPortEq, 1)

\* What the first "--port" part of the parts decides: the parsed value that
\* follows it or that it holds, nothing when there is no such part, no value
\* or no u16 in it.
FirstPortTokenResult(tokens) ==
    LET found == { i \in 1..Len(tokens) : IsPortToken(tokens[i]) }
        first == CHOOSE i \in found : \A j \in found : i <= j
    IN  IF found = {} THEN None
        ELSE IF tokens[first] = sPort
             THEN IF first + 1 <= Len(tokens) THEN ParseU16(tokens[first + 1]) ELSE None
             ELSE ParseU16(SubSeq(tokens[first], Len(sPortEq) + 1, Len(tokens[first])))

\* C12: the result of extractPort is what the first "--port" or
\* "--port=<value>" part decides: nothing when there is none, when its value
\* is missing or when its value is no u16, its value otherwise.
C12_FirstPortTokenDecides ==
    h_out # None => Unwrap(h_out) = FirstPortTokenResult(h_in.tokens)

\* ------------------------------------------- harness: port round trip

\* The decimal numeral of n, as a command line carries it.
DigitOf(d) == CHOOSE c \in DigitChars : DigitVal[c] = d

RECURSIVE ToDigits(_)
ToDigits(n) ==
    IF n < 10 THEN <<DigitOf(n)>>
    ELSE Append(ToDigits(n \div 10), DigitOf(n % 10))

sTool == <<"t", "o", "o", "l">>
sOtherFlag == <<"-", "-", "v">>

\* The command line of a tool given port p: "tool --port p" or
\* "tool --port=p", with or without another flag after it.
PortForms == {"separate", "joined"}

PortCmdline(p, form, more) ==
    JoinSpace(<<sTool>>
              \o (IF form = "separate" THEN <<sPort, ToDigits(p)>>
                  ELSE <<sPortEq \o ToDigits(p)>>)
              \o (IF more THEN <<sOtherFlag>> ELSE <<>>))

InitRoundTrip ==
    /\ h_in \in [p : 0..U16Max, form : PortForms, more : BOOLEAN]
    /\ h_out = None
    /\ ProgramIdle

ApplyRoundTrip ==
    /\ h_out = None
    /\ h_out' = Some(extract_port_from_cmdline(PortCmdline(h_in.p, h_in.form, h_in.more)))
    /\ UNCHANGED <<h_in, mainVars, discVars, dialogVars, asyncVars, eventVars>>

NextRoundTrip == ApplyRoundTrip

SpecRoundTrip == InitRoundTrip /\ [][NextRoundTrip]_vars

\* C13: for every p in 0..65535, the port extracted from "tool --port p" and
\* from "tool --port=p", also with another flag following, is p.
C13_RoundTrip ==
    h_out # None => Unwrap(h_out) = Some(h_in.p)

C13_Witness ==
    /\ h_out # None
    /\ h_in.p = U16Max
    /\ h_in.form = "joined"
    /\ h_in.more
    /\ Unwrap(h_out) = Some(U16Max)

\* ------------------------------------------------ harness: token expansion

\* Texts of at most MaxText characters, parameter maps over three keys, and
\* up to MaxCalls calls of expand_placeholders on the same text and map.
MaxText == 5
MaxCalls == 2
TextChars == {"@", "p", "a"}
Texts == UNION { [1..n -> TextChars] : n \in 0..MaxText }
ParamKeys == { <<"p">>, <<"a">>, <<"p", "a">> }
ParamValues == { <<"l">>, <<"s">>, <<"@", "p">> }
ParamMaps == UNION { [ks -> ParamValues] : ks \in SUBSET ParamKeys }

InitExpand ==
    /\ h_in \in [text : Texts, params : ParamMaps]
    /\ h_out = None
    /\ ProgramIdle

\* What the calls so far returned, in the order of the calls.
Returns == IF h_out = None THEN <<>> ELSE Unwrap(h_out)

\* One call of expand_placeholders; the map yields its keys in some order.
ApplyExpand ==
    /\ Len(Returns) < MaxCalls
    /\ \E order \in KeyOrders(h_in.params) :
           h_out' = Some(Append(Returns,
                                expand_placeholders(h_in.text, h_in.params, None, order)))
    /\ UNCHANGED <<h_in, mainVars, discVars, dialogVars, asyncVars, eventVars>>

NextExpand == ApplyExpand

SpecExpand == InitExpand /\ [][NextExpand]_vars

\* The strings the calls so far returned.
Expanded == { Returns[i] : i \in 1..Len(Returns) }

\* k1 is a proper prefix of k2.
ProperPrefix(k1, k2) == Len(k1) < Len(k2) /\ MatchesAt(k2, k1, 1)

HasPrefixPair(ps) == \E k1, k2 \in DOMAIN ps : ProperPrefix(k1, k2)

\* The keys whose token "@key" stands at position i of text.
KeysAt(text, ps, i) == { k \in DOMAIN ps : MatchesAt(text, <<"@">> \o k, i) }

LongestOf(ks) == CHOOSE k \in ks : \A k2 \in ks : Len(k2) <= Len(k)

\* text with, from the left, every token of the longest key standing at a
\* position put in place by that key's value, in one pass: every @k2 by
\* k2's value, every @k1 that does not begin an @k2 by k1's value.
RECURSIVE SubstituteFrom(_, _, _)
SubstituteFrom(text, ps, i) ==
    IF i > Len(text) THEN <<>>
    ELSE IF KeysAt(text, ps, i) # {}
         THEN ps[LongestOf(KeysAt(text, ps, i))]
              \o SubstituteFrom(text, ps, i + 1 + Len(LongestOf(KeysAt(text, ps, i))))
         ELSE <<text[i]>> \o SubstituteFrom(text, ps, i + 1)

Substitute(text, ps) == SubstituteFrom(text, ps, 1)

AtFree(s) == \A i \in 1..Len(s) : s[i] # "@"

\* Keys and values hold no '@', the text holds no @clipboard, and every '@'
\* of the text begins the token of a key.
PlainTokens(text, ps) ==
    /\ \A k \in DOMAIN ps : AtFree(k) /\ AtFree(ps[k])
    /\ ~Contains(text, sAtClipboard)
    /\ \A i \in 1..Len(text) : text[i] = "@" => KeysAt(text, ps, i) # {}

C15_Deterministic ==
    \A r1, r2 \in Expanded : r1 = r2

\* ------------------------------------------------------- highlight overlay

\* A str is UTF-8: the bytes of one character. "é" stands for the characters
\* of more than one byte.
Utf8(c) == IF c = "é" THEN <<"C3", "A9">> ELSE <<c>>

RECURSIVE Utf8Of(_)
Utf8Of(s) == IF s = <<>> THEN <<>> ELSE Utf8(Head(s)) \o Utf8Of(Tail(s))

\* str::len: the number of bytes.
ByteLen(s) == Len(Utf8Of(s))

\* char_indices: the byte position (from 1) of character k of s.
ByteIndex(s, k) == ByteLen(SubSeq(s, 1, k - 1)) + 1

\* u8::is_ascii_alphanumeric
AsciiLetters ==
    { "a", "b", "c", "d", "e", "f", "g", "h", "i", "j", "k", "l", "m",
      "n", "o", "p", "q", "r", "s", "t", "u", "v", "w", "x", "y", "z",
      "A", "B", "C", "D", "E", "F", "G", "H", "I", "J", "K", "L", "M",
      "N", "O", "P", "Q", "R", "S", "T", "U", "V", "W", "X", "Y", "Z" }
IsAsciiAlphanumeric(b) == b \in AsciiLetters \cup DigitChars

\* str::find in bytes[from..]: the first position at or after from where
\* pat stands, or None.
FindFrom(bytes, pat, from) ==
    LET hits == { i \in from..Len(bytes) : MatchesAt(bytes, pat, i) }
    IN  IF hits = {} THEN None
        ELSE Some(CHOOSE i \in hits : \A j \in hits : i <= j)

\* No word boundary asked for: every occurrence of the token counts.
AtEnd_Always(bytes, end) == TRUE

\* at_end: the token that stops before byte end stops at a word boundary.
AtEnd(bytes, end) ==
    \/ end > Len(bytes)
    \/ ~IsAsciiAlphanumeric(bytes[end]) /\ bytes[end] # "_"

\* The while loop of build_highlight_text for one token.
RECURSIVE MarkToken(_, _, _, _)
MarkToken(bytes, token, search_from, mask) ==
    LET pos == FindFrom(bytes, token, search_from)
    IN  IF pos = None THEN mask
        ELSE LET abs_pos == Unwrap(pos)
                 end == abs_pos + Len(token)
             IN  MarkToken(bytes, token, abs_pos + 1,
                           IF AtEnd(bytes, end)
                           THEN [i \in 1..Len(mask) |->
                                    IF abs_pos <= i /\ i < end THEN TRUE ELSE mask[i]]
                           ELSE mask)

\* The for loop over the placeholder names, from name k on.
RECURSIVE MarkNames(_, _, _, _)
MarkNames(bytes, placeholders, k, mask) ==
    IF k > Len(placeholders) THEN mask
    ELSE MarkNames(bytes, placeholders, k + 1,
                   MarkToken(bytes, Utf8Of(<<"@">> \o placeholders[k]), 1, mask))

build_highlight_text(text, placeholders) ==
    LET bytes == Utf8Of(text)
        mask == MarkNames(bytes, placeholders, 1, [i \in 1..Len(bytes) |-> FALSE])
    IN  [k \in 1..Len(text) |->
            IF mask[ByteIndex(text, k)] THEN text[k]
            ELSE IF text[k] = "\n" THEN "\n"
            ELSE " "]

\* ------------------------------------------------ harness: highlight overlay

MaxMask == 4
MaskChars == {"@", "p", "a", "_", " ", "\n", "é"}
MaskTexts == UNION { [1..n -> MaskChars] : n \in 0..MaxMask }
NameLists ==
    { <<>>,
      << <<"p">> >>,
      << <<"p">>, <<"p", "a">> >>,
      << <<"é">>, <<"p", "a">> >> }

InitHighlight ==
    /\ h_in \in [text : MaskTexts, names : NameLists]
    /\ h_out = None
    /\ ProgramIdle

ApplyHighlight ==
    /\ h_out = None
    /\ h_out' = Some(build_highlight_text(h_in.text, h_in.names))
    /\ UNCHANGED <<h_in, mainVars, discVars, dialogVars, asyncVars, eventVars>>

NextHighlight == ApplyHighlight

SpecHighlight == InitHighlight /\ [][NextHighlight]_vars

\* A character that goes on a word: ASCII letter, digit or underscore.
WordChar(c) == c \in AsciiLetters \cup DigitChars \cup {"_"}

\* Character j of text belongs to a recognized @<name> token: the token
\* stands in the text around j and is followed by the end of the text or by
\* a character that is not a word character.
InRecognizedToken(text, names, j) ==
    \E n \in 1..Len(names) : \E s \in 1..Len(text) :
        LET last == s + Len(names[n])
        IN  /\ MatchesAt(text, <<"@">> \o names[n], s)
            /\ last + 1 > Len(text) \/ ~WordChar(text[last + 1])
            /\ s <= j /\ j <= last

\* C16: the result of buildHighlight has as many characters as text, and at
\* every position it holds the original character when the position belongs
\* to a recognized @<name> token or is a newline, and a single space
\* otherwise.
C16_Aligned ==
    h_out # None =>
        /\ Len(Unwrap(h_out)) = Len(h_in.text)
        /\ \A j \in 1..Len(h_in.text) :
               Unwrap(h_out)[j] =
                   IF InRecognizedToken(h_in.text, h_in.names, j) \/ h_in.text[j] = "\n"
                   THEN h_in.text[j]
                   ELSE " "

C16_Witness ==
    /\ h_in.text = <<"@", "p", "\n", "é">>
    /\ h_in.names = << <<"p">>, <<"p", "a">> >>
    /\ h_out = Some(<<"@", "p", "\n", " ">>)

\* ------------------------------------------------------- placeholder names

\* The characters in the order of their bytes, which is the order of String.
CharOrder ==
    <<"\t", "\n", " ", "+", "-",
      "0", "1", "2", "3", "4", "5", "6", "7", "8", "9", "=", "@",
      "A", "B", "C", "D", "E", "F", "G", "H", "I", "J", "K", "L", "M",
      "N", "O", "P", "Q", "R", "S", "T", "U", "V", "W", "X", "Y", "Z", "_",
      "a", "b", "c", "d", "e", "f", "g", "h", "i", "j", "k", "l", "m",
      "n", "o", "p", "q", "r", "s", "t", "u", "v", "w", "x", "y", "z", "é">>

CharRank(c) == CHOOSE i \in 1..Len(CharOrder) : CharOrder[i] = c

\* Ord for String: a < b, comparing character by character.
RECURSIVE StrLess(_, _)
StrLess(a, b) ==
    IF b = <<>> THEN FALSE
    ELSE IF a = <<>> THEN TRUE
    ELSE IF Head(a) = Head(b) THEN StrLess(Tail(a), Tail(b))
    ELSE CharRank(Head(a)) < CharRank(Head(b))

\* keys().cloned().collect() then sort(): the keys in ascending order.
RECURSIVE SortKeys(_)
SortKeys(keys) ==
    IF keys = {} THEN <<>>
    ELSE LET least == CHOOSE k \in keys : \A k2 \in keys \ {k} : StrLess(k, k2)
         IN  <<least>> \o SortKeys(keys \ {least})

sClipboard == <<"c", "l", "i", "p", "b", "o", "a", "r", "d">>

\* all_placeholders in main: the built-in name, then the sorted keys.
all_placeholders(ps) == <<sClipboard>> \o SortKeys(DOMAIN ps)

\* ------------------------------------------------------------ autocomplete

\* str::to_lowercase, character by character; only A-Z have another form
\* among the characters here.
UpperLetters ==
    <<"A", "B", "C", "D", "E", "F", "G", "H", "I", "J", "K", "L", "M",
      "N", "O", "P", "Q", "R", "S", "T", "U", "V", "W", "X", "Y", "Z">>
LowerLetters ==
    <<"a", "b", "c", "d", "e", "f", "g", "h", "i", "j", "k", "l", "m",
      "n", "o", "p", "q", "r", "s", "t", "u", "v", "w", "x", "y", "z">>

ToLowerChar(c) ==
    IF \E i \in 1..Len(UpperLetters) : UpperLetters[i] = c
    THEN LowerLetters[CHOOSE i \in 1..Len(UpperLetters) : UpperLetters[i] = c]
    ELSE c

to_lowercase(s) == [i \in 1..Len(s) |-> ToLowerChar(s[i])]

\* str::rfind of one character: its last position, or None.
RFind(s, c) ==
    LET hits == { i \in 1..Len(s) : s[i] = c }
    IN  IF hits = {} THEN None
        ELSE Some(CHOOSE i \in hits : \A j \in hits : j <= i)

\* str::contains of one character
ContainsChar(s, c) == \E i \in 1..Len(s) : s[i] = c

\* str::starts_with
StartsWithStr(s, pat) == MatchesAt(s, pat, 1)

\* iter().filter(keep).collect(): the entries of names that pass, in order.
RECURSIVE FilterPrefix(_, _)
FilterPrefix(names, partial) ==
    IF names = <<>> THEN <<>>
    ELSE (IF StartsWithStr(to_lowercase(Head(names)), partial)
          THEN <<Head(names)>> ELSE <<>>)
         \o FilterPrefix(Tail(names), partial)

\* placeholders.iter().any(|p| p == &partial)
ExactMatch(placeholders, partial) ==
    \E i \in 1..Len(placeholders) : placeholders[i] = partial

\* The first match or entry, last in place of first.
Best_Last(names) == names[Len(names)]

\* matches.first() / placeholders.first(), of a sequence that is not empty.
Best(names) == names[1]

NoSuggestion == << <<>>, FALSE >>

\* find_autocomplete: the suggestion and whether it is shown.
find_autocomplete(text, placeholders) ==
    LET at == RFind(text, "@")
    IN  IF at = None THEN NoSuggestion
        ELSE LET after_at == SubSeq(text, Unwrap(at) + 1, Len(text))
                 partial == to_lowercase(after_at)
                 matches == FilterPrefix(placeholders, partial)
             IN  IF ContainsChar(after_at, " ") \/ ContainsChar(after_at, "\n")
                 THEN NoSuggestion
                 ELSE IF ExactMatch(placeholders, partial) THEN NoSuggestion
                 ELSE IF partial # <<>>
                      THEN IF matches # <<>>
                           THEN << <<"@">> \o Best(matches), TRUE >>
                           ELSE NoSuggestion
                      ELSE IF placeholders # <<>>
                           THEN << <<"@">> \o Best(placeholders), TRUE >>
                           ELSE NoSuggestion

\* The completed token pushed without the space after it.
Completed_NoSpace(best) == <<"@">> \o best

\* format!("@{} ", best)
Completed(best) == <<"@">> \o best \o <<" ">>

\* apply_autocomplete: the text with the open token completed.
apply_autocomplete(text, placeholders) ==
    LET at == RFind(text, "@")
    IN  IF at = None THEN text
        ELSE LET after_at == SubSeq(text, Unwrap(at) + 1, Len(text))
                 partial == to_lowercase(after_at)
                 matches == IF partial = <<>> THEN placeholders
                            ELSE FilterPrefix(placeholders, partial)
             IN  IF ContainsChar(after_at, " ") \/ ContainsChar(after_at, "\n")
                 THEN text
                 ELSE IF matches # <<>>
                      THEN SubSeq(text, 1, Unwrap(at) - 1) \o Completed(Best(matches))
                      ELSE text

\* ------------------------------------------------- harness: autocomplete

\* The input text is put together from at most MaxPieces pieces; the names
\* are those main builds from the keys of the parameters.
MaxPieces == 4
InputPieces ==
    { <<"@">>, <<"p">>, <<"P">>, <<"a">>, <<"c">>, <<" ">>, <<"\n">>, sClipboard }

RECURSIVE Flatten(_)
Flatten(pieces) == IF pieces = <<>> THEN <<>> ELSE Head(pieces) \o Flatten(Tail(pieces))

InputTexts == { Flatten(ps) : ps \in UNION { [1..n -> InputPieces] : n \in 0..MaxPieces } }

SuggestKeySets ==
    { {},
      { <<"p">> },
      { <<"p">>, <<"p", "a">> },
      { <<"a">>, <<"p", "a">> },
      { <<"P", "a">>, <<"a">> } }

SuggestNames == { all_placeholders([k \in ks |-> <<>>]) : ks \in SuggestKeySets }

InitSuggest ==
    /\ h_in \in [text : InputTexts, names : SuggestNames]
    /\ h_out = None
    /\ ProgramIdle

\* find_autocomplete applied to the text, as on_text_changed applies it.
ApplySuggest ==
    /\ h_out = None
    /\ h_out' = Some([suggestion |-> find_autocomplete(h_in.text, h_in.names),
                      completed |-> None])
    /\ UNCHANGED <<h_in, mainVars, discVars, dialogVars, asyncVars, eventVars>>

\* apply_autocomplete applied to the same text, as on_accept_autocomplete
\* applies it.
ApplyAccept ==
    /\ h_out # None
    /\ Unwrap(h_out).completed = None
    /\ h_out' = Some([Unwrap(h_out) EXCEPT
                         !.completed = Some(apply_autocomplete(h_in.text, h_in.names))])
    /\ UNCHANGED <<h_in, mainVars, discVars, dialogVars, asyncVars, eventVars>>

NextSuggest == ApplySuggest \/ ApplyAccept

SpecSuggest == InitSuggest /\ [][NextSuggest]_vars

\* The text has an '@', and what stands after and before the last one.
HasAt(text) == ContainsChar(text, "@")
LastAt(text) == CHOOSE i \in 1..Len(text) : text[i] = "@" /\ \A j \in (i + 1)..Len(text) : text[j] # "@"
TailOf(text) == SubSeq(text, LastAt(text) + 1, Len(text))
BeforeAt(text) == SubSeq(text, 1, LastAt(text) - 1)

\* The tail is closed: it holds a space or a newline.
Closed(tail) == \E i \in 1..Len(tail) : tail[i] \in {" ", "\n"}

\* The positions of the names whose lower-cased form starts with the
\* lower-cased tail.
Candidates(tail, names) ==
    { i \in 1..Len(names) : MatchesAt(to_lowercase(names[i]), to_lowercase(tail), 1) }

\* The tail is a placeholder name, whatever the case of the letters.
IsPlaceholderName(tail, names) ==
    \E i \in 1..Len(names) : to_lowercase(names[i]) = to_lowercase(tail)

FirstOf(is) == CHOOSE i \in is : \A j \in is : i <= j

Suggested == Unwrap(h_out).suggestion

\* C17: for every name in the placeholder set and every prefix text,
\* suggest(prefix + '@' + name) returns ('', false).
C17_NoSuggestionWhenComplete ==
    h_out # None =>
        \A i \in 1..Len(h_in.names) :
            (\E prefix \in InputTexts : h_in.text = prefix \o <<"@">> \o h_in.names[i])
                => Suggested = << <<>>, FALSE >>

\* C18: for a text whose last '@' is followed by a tail with no space or
\* newline that is not a placeholder name (letters compared without case),
\* suggest returns ('@' + n, true) for the first name n, in the order of the
\* set, whose lower-cased form starts with the lower-cased tail (the first
\* name of all when the tail is empty) and ('', false) when there is none; a
\* text with no '@' or with a closed tail yields ('', false).
C18_Suggestion ==
    h_out # None =>
        IF ~HasAt(h_in.text) \/ Closed(TailOf(h_in.text))
        THEN Suggested = << <<>>, FALSE >>
        ELSE IF IsPlaceholderName(TailOf(h_in.text), h_in.names) THEN TRUE
        ELSE IF Candidates(TailOf(h_in.text), h_in.names) = {}
             THEN Suggested = << <<>>, FALSE >>
             ELSE Suggested =
                    << <<"@">> \o h_in.names[FirstOf(Candidates(TailOf(h_in.text), h_in.names))],
                       TRUE >>

C18_Witness ==
    /\ h_in.text = <<" ", "@", "P">>
    /\ h_in.names = <<sClipboard, <<"a">>, <<"p", "a">> >>
    /\ h_out # None
    /\ Suggested = << <<"@", "p", "a">>, TRUE >>

\* C19: whenever suggest returns (s, true), accept returns the part of the
\* text before the last '@', then s, then one space; whenever no candidate
\* matches (no '@', a closed token, or no name that starts with the
\* partial), accept returns the text unchanged.
C19_AcceptFollowsSuggest ==
    h_out # None /\ Unwrap(h_out).completed # None =>
        /\ Suggested[2] =>
               Unwrap(Unwrap(h_out).completed)
                   = BeforeAt(h_in.text) \o Suggested[1] \o <<" ">>
        /\ (\/ ~HasAt(h_in.text)
            \/ Closed(TailOf(h_in.text))
            \/ Candidates(TailOf(h_in.text), h_in.names) = {})
               => Unwrap(Unwrap(h_out).completed) = h_in.text

C19_Witness ==
    /\ h_in.text = <<"p", "@", "c">>
    /\ h_in.names = <<sClipboard, <<"p">> >>
    /\ h_out # None
    /\ Suggested = << <<"@">> \o sClipboard, TRUE >>
    /\ Unwrap(h_out).completed = Some(<<"p", "@">> \o sClipboard \o <<" ">>)

\* --------------------------------------------- harness: placeholder names

\* The --param arguments of a run: at most MaxArgs out of ArgPool.
MaxArgs == 3
ArgPool ==
    { <<"p", "=", "s">>,
      <<"p", "a", "=", "l">>,
      <<" ", "p", " ", "=", "x">>,
      <<"P", "=", "s">>,
      <<"=", "x">>,
      <<"p">>,
      sClipboard \o <<"=", "x">> }

ArgLists == UNION { [1..n -> ArgPool] : n \in 0..MaxArgs }

InitPlaceholders ==
    /\ h_in \in [raw : ArgLists]
    /\ h_out = None
    /\ ProgramIdle

\* main: the parameters parsed, then the placeholder names collected.
ApplyPlaceholders ==
    /\ h_out = None
    /\ h_out' = Some(all_placeholders(parse_params(h_in.raw)))
    /\ UNCHANGED <<h_in, mainVars, discVars, dialogVars, asyncVars, eventVars>>

NextPlaceholders == ApplyPlaceholders

SpecPlaceholders == InitPlaceholders /\ [][NextPlaceholders]_vars

\* C20: the placeholder set built at startup, `clipboard` followed by the
\* user parameter keys, holds no name twice, whatever key=value arguments
\* the user passes.
C20_NoDuplicateNames ==
    h_out # None =>
        \A i, j \in 1..Len(Unwrap(h_out)) :
            Unwrap(h_out)[i] = Unwrap(h_out)[j] => i = j

\* ------------------------------------------- harness: parameter parsing

\* The --param arguments parse_params is given: at most MaxArgs out of
\* ParamArgPool.
ParamArgPool ==
    { <<"p", "=", "s">>,
      <<"p", "=", "l">>,
      <<" ", "p", " ", "=", " ", "x", " ">>,
      <<"q", "=", "a", "=", "b">>,
      <<"q", "=">>,
      <<"=", "x">>,
      <<" ", "=", "x">>,
      <<"p">> }

ParamArgLists == UNION { [1..n -> ParamArgPool] : n \in 0..MaxArgs }

InitParams ==
    /\ h_in \in [raw : ParamArgLists]
    /\ h_out = None
    /\ ProgramIdle

ApplyParams ==
    /\ h_out = None
    /\ h_out' = Some(parse_params(h_in.raw))
    /\ UNCHANGED <<h_in, mainVars, discVars, dialogVars, asyncVars, eventVars>>

NextParams == ApplyParams

SpecParams == InitParams /\ [][NextParams]_vars

EqFree(s) == \A i \in 1..Len(s) : s[i] # "="

\* What an argument contributes: the pair of the trimmed text before its
\* first '=' and the trimmed text after it, when it has an '=' and the key
\* is not empty; nothing otherwise.
Contribution(arg) ==
    { <<Trim(SubSeq(arg, 1, i - 1)), Trim(SubSeq(arg, i + 1, Len(arg)))>> :
        i \in { k \in 1..Len(arg) :
                  /\ arg[k] = "="
                  /\ EqFree(SubSeq(arg, 1, k - 1))
                  /\ Trim(SubSeq(arg, 1, k - 1)) # <<>> } }

\* The positions of the arguments of raw that contribute the key k.
Contributors(raw, k) ==
    { n \in 1..Len(raw) : \E kv \in Contribution(raw[n]) : kv[1] = k }

LastOf(ns) == CHOOSE n \in ns : \A m \in ns : m <= n

\* C21: an argument with no '=' or with an empty trimmed key contributes
\* nothing to the map; every other argument contributes the trimmed text
\* before its first '=' as key and the trimmed text after it, further '='
\* included, as value (of two arguments with one key the later one stays).
C21_ParseParams ==
    h_out # None =>
        LET map == Unwrap(h_out)
            raw == h_in.raw
        IN  /\ DOMAIN map = { kv[1] : kv \in UNION { Contribution(raw[n]) : n \in 1..Len(raw) } }
            /\ \A k \in DOMAIN map :
                   <<k, map[k]>> \in Contribution(raw[LastOf(Contributors(raw, k))])

C21_Witness ==
    /\ h_in.raw = << <<"p">>, <<"q", "=", "a", "=", "b">>, <<" ", "=", "x">> >>
    /\ h_out = Some(<<"q">> :> <<"a", "=", "b">>)

\* The positions of the requests the server received: those whose send()
\* came to a response.
Received == { i \in 1..Len(posts) : posts[i].res.ok }

\* The position of the last submit command received before position j, 0
\* when there is none.
PreviousSubmit(j) ==
    LET before == { i \in Received : i < j /\ IsExecute(posts[i]) }
    IN  IF before = {} THEN 0 ELSE CHOOSE i \in before : \A k \in before : k <= i

\* The appends received between the previous submit command and position j.
AppendsSince(j) ==
    { i \in Received : PreviousSubmit(j) < i /\ i < j /\ IsAppend(posts[i]) }

\* C22 (as stated): every submit command the server receives is preceded,
\* since the previous submit command, by exactly one append, that of the
\* same submission and carrying its expanded text.
C22_Original ==
    \A j \in Received :
        IsExecute(posts[j]) =>
            /\ Cardinality(AppendsSince(j)) = 1
            /\ \A i \in AppendsSince(j) :
                   /\ posts[i].task = posts[j].task
                   /\ posts[i].payload = tasks[posts[j].task].text

\* The appends of the submission that issued request j, issued before j.
OwnAppends(j) ==
    { i \in 1..(j - 1) : IsAppend(posts[i]) /\ posts[i].task = posts[j].task }

\* C22 (amended): also when submit is triggered again before the previous
\* submission has resolved, every submit command was preceded by exactly one
\* append of its own submission, received by the server and carrying that
\* submission's expanded text; the appends and submits of two submissions
\* may reach the server in any interleaving.
C22_OwnAppendFirst ==
    \A j \in 1..Len(posts) :
        IsExecute(posts[j]) =>
            /\ Cardinality(OwnAppends(j)) = 1
            /\ \A i \in OwnAppends(j) :
                   /\ i \in Received
                   /\ posts[i].payload = tasks[posts[j].task].text

\* C22's case: the second submission's append reached the server between
\* the first one's append and its submit command.
C22_Witness ==
    /\ Len(posts) >= 3
    /\ {1, 2, 3} \subseteq Received
    /\ IsAppend(posts[1]) /\ IsAppend(posts[2]) /\ IsExecute(posts[3])
    /\ posts[1].task # posts[2].task
    /\ posts[3].task = posts[1].task

\* ------------------------------------------------------ the dialog's text

\* The dialog's properties the text callbacks read and write, as they are
\* when the window is made: an empty field, nothing highlighted, no
\* suggestion shown.
DialogStart ==
    [input_text |-> <<>>,
     highlight_text |-> <<>>,
     autocomplete_suggestion |-> <<>>,
     autocomplete_visible |-> FALSE]

\* The texts one edit of the user makes out of the field's text: a character
\* typed at the end, while the text is shorter than MaxInput, or the last
\* character deleted.
MaxInput == 4
TypedChars == {"@", "p", "a", " ", "\n"}
Edits(text) ==
    (IF Len(text) < MaxInput THEN { Append(text, c) : c \in TypedChars } ELSE {})
    \cup (IF text # <<>> THEN { SubSeq(text, 1, Len(text) - 1) } ELSE {})

\* The field after the user's edit: it holds the new text, which it hands to
\* the text-changed callback.
Edited(d, text) == [d EXCEPT !.input_text = text]

\* The accept callback leaving the overlay as it was.
on_accept_autocomplete_StaleHighlight(d, placeholders) ==
    [d EXCEPT !.input_text = apply_autocomplete(d.input_text, placeholders),
              !.autocomplete_visible = FALSE]

\* The callback of on_accept_autocomplete on the dialog d.
on_accept_autocomplete(d, placeholders) ==
    LET completed == apply_autocomplete(d.input_text, placeholders)
    IN  [d EXCEPT !.input_text = completed,
                  !.highlight_text = build_highlight_text(completed, placeholders),
                  !.autocomplete_visible = FALSE]

\* The callback of on_text_changed on the dialog d, called with text.
on_text_changed(d, text, placeholders) ==
    [d EXCEPT !.highlight_text = build_highlight_text(text, placeholders),
              !.autocomplete_suggestion = find_autocomplete(text, placeholders)[1],
              !.autocomplete_visible = find_autocomplete(text, placeholders)[2]]

\* --------------------------------------------- harness: the dialog's text

\* h_in holds the placeholder names main built, h_out the dialog.
InitDialog ==
    /\ h_in \in [names : SuggestNames]
    /\ h_out = Some(DialogStart)
    /\ ProgramIdle

TextChanged ==
    /\ \E text \in Edits(Unwrap(h_out).input_text) :
           h_out' = Some(on_text_changed(Edited(Unwrap(h_out), text), text, h_in.names))
    /\ UNCHANGED <<h_in, mainVars, discVars, dialogVars, asyncVars, eventVars>>

AcceptAutocomplete ==
    /\ h_out' = Some(on_accept_autocomplete(Unwrap(h_out), h_in.names))
    /\ UNCHANGED <<h_in, mainVars, discVars, dialogVars, asyncVars, eventVars>>

NextDialog == TextChanged \/ AcceptAutocomplete

SpecDialog == InitDialog /\ [][NextDialog]_vars

\* C23: after any sequence of text-changed and accept-autocomplete events,
\* the highlight overlay is buildHighlight of the current input text and the
\* autocomplete-visible flag is the visible flag suggest returns for the
\* current input text.
C23_DerivedStateConsistent ==
    LET d == Unwrap(h_out)
    IN  /\ d.highlight_text = build_highlight_text(d.input_text, h_in.names)
        /\ d.autocomplete_visible = find_autocomplete(d.input_text, h_in.names)[2]

\* C23's case: "@p" was typed and the suggestion "@pa" accepted.
C23_Witness ==
    LET d == Unwrap(h_out)
    IN  /\ h_in.names = <<sClipboard, <<"a">>, <<"p", "a">> >>
        /\ d.input_text = <<"@", "p", "a", " ">>
        /\ d.highlight_text = <<"@", "p", "a", " ">>
        /\ d.autocomplete_suggestion = <<"@", "p", "a">>
        /\ ~d.autocomplete_visible

\* ------------------------------------- harness: built-in and user tokens

\* Texts of at most MaxPieces pieces, parameters with a key that begins with
\* the built-in name, and what the clipboard holds when it is read.
BuiltinPieces == { sAtClipboard, <<"_">>, <<"t">>, <<"@">>, <<" ">> }
BuiltinTexts == { Flatten(ps) : ps \in UNION { [1..n -> BuiltinPieces] : n \in 0..MaxPieces } }
BuiltinKeys == { sClipboard \o <<"_", "t">>, <<"t">> }
BuiltinMaps == UNION { [ks -> { <<"v">> }] : ks \in SUBSET BuiltinKeys }

InitBuiltin ==
    /\ h_in \in [text : BuiltinTexts, params : BuiltinMaps, cb : Clipboards]
    /\ h_out = None
    /\ ProgramIdle

ApplyBuiltin ==
    /\ h_out = None
    /\ \E order \in KeyOrders(h_in.params) :
           h_out' = Some(expand_placeholders(h_in.text, h_in.params, h_in.cb, order))
    /\ UNCHANGED <<h_in, mainVars, discVars, dialogVars, asyncVars, eventVars>>

NextBuiltin == ApplyBuiltin

SpecBuiltin == InitBuiltin /\ [][NextBuiltin]_vars

\* The parameters together with the built-in name, bound to the text the
\* clipboard gives.
WithBuiltin(ps, cb) == (sClipboard :> UnwrapOrDefault(read_clipboard(cb))) @@ ps

\* C24: for a user key that begins with `clipboard`, expand replaces every
\* occurrence of @<that key> in the text by that key's value (stated for
\* texts in which every '@' begins a token and for values and a clipboard
\* without '@', where replacing one token cannot make another).
C24_BuiltinDoesNotShadow ==
    (/\ h_out # None
     /\ \E k \in DOMAIN h_in.params :
            ProperPrefix(sClipboard, k) /\ Contains(h_in.text, <<"@">> \o k)
     /\ \A i \in 1..Len(h_in.text) :
            h_in.text[i] = "@" => KeysAt(h_in.text, WithBuiltin(h_in.params, h_in.cb), i) # {}
     /\ AtFree(UnwrapOrDefault(read_clipboard(h_in.cb))))
        => Unwrap(h_out) = Substitute(h_in.text, WithBuiltin(h_in.params, h_in.cb))

====
